---------------------------- MODULE Spec2Model ----------------------------
(***************************************************************************)
(* The JOS kernel monitor (kern/monitor.c): the read-eval-print loop       *)
(* monitor(), the tokenizer/dispatcher runcmd(), and the handlers          *)
(* mon_help, mon_kerninfo, mon_backtrace, mon_pagemappings, mon_memconst.  *)
(*                                                                         *)
(* Characters are one-character strings, a C string is a run of            *)
(* characters in a buffer closed by NUL, a char pointer is an index into   *)
(* the buffer (indices start at 1, so 0 is the null pointer).  A 32-bit    *)
(* unsigned value is a record [pg, off] with pg its upper 20 bits and off  *)
(* its lower 12 bits; all arithmetic on it is exact modulo 2^32.           *)
(***************************************************************************)
EXTENDS Integers, Sequences, FiniteSets, TLC

(***************************************************************************)
(* Bounds of the model.                                                    *)
(***************************************************************************)
\* Largest number of filler arguments appended after a command word.
MaxFill == 15
\* Largest number of loop iterations of one handler that the model follows.
MaxIter == 6

(***************************************************************************)
(* Program constants.                                                      *)
(***************************************************************************)
MAXARGS == 16
PGSIZE == 4096
\* Number of 4096-byte pages in the 32-bit address space.
NPG == 2^20

NUL == "NUL"
WHITESPACE == <<"\t", "\r", "\n", " ">>

(***************************************************************************)
(* 32-bit unsigned values.                                                 *)
(***************************************************************************)
U32(pg, off) == [pg |-> pg, off |-> off]
U32Zero == U32(0, 0)
\* (v * base + dig) mod 2^32, for base <= 16 and dig < base.
U32MulAdd(v, base, dig) ==
    LET lo == v.off * base + dig
    IN  U32((v.pg * base + (lo \div PGSIZE)) % NPG, lo % PGSIZE)
\* v & ~0xFFF
U32PageMask(v) == U32(v.pg, 0)
\* (v + PGSIZE) mod 2^32
U32AddPage(v) == U32((v.pg + 1) % NPG, v.off)
\* a <= b, unsigned
U32Leq(a, b) == a.pg < b.pg \/ (a.pg = b.pg /\ a.off <= b.off)

(***************************************************************************)
(* String helpers of lib/string.c, on a buffer b and a pointer p.          *)
(***************************************************************************)
\* strchr on a constant string s: the index of the first c in s, 0 if none.
RECURSIVE strchr_from(_, _, _)
strchr_from(s, c, i) ==
    IF i > Len(s) THEN 0
    ELSE IF s[i] = c THEN i
    ELSE strchr_from(s, c, i + 1)
strchr(s, c) == strchr_from(s, c, 1)

\* strfind(b + p, '\0'): the pointer to the terminator of the string at p.
RECURSIVE strfind(_, _, _)
strfind(b, p, c) ==
    IF b[p] = NUL \/ b[p] = c THEN p ELSE strfind(b, p + 1, c)

\* The characters of the C string at p, without the terminator.
CStr(b, p) == SubSeq(b, p, strfind(b, p, NUL) - 1)

\* strcmp(b + p, name): 0 when equal, non-zero (1) otherwise.
RECURSIVE strcmp_at(_, _, _, _)
strcmp_at(b, p, name, i) ==
    LET c1 == b[p]
        c2 == IF i > Len(name) THEN NUL ELSE name[i]
    IN  IF c1 # c2 THEN 1
        ELSE IF c1 = NUL THEN 0
        ELSE strcmp_at(b, p + 1, name, i + 1)
strcmp(b, p, name) == strcmp_at(b, p, name, 1)

DIGITS == <<"0", "1", "2", "3", "4", "5", "6", "7", "8", "9">>
LOWER == <<"a", "b", "c", "d", "e", "f", "g", "h", "i", "j", "k", "l", "m",
           "n", "o", "p", "q", "r", "s", "t", "u", "v", "w", "x", "y", "z">>
UPPER == <<"A", "B", "C", "D", "E", "F", "G", "H", "I", "J", "K", "L", "M",
           "N", "O", "P", "Q", "R", "S", "T", "U", "V", "W", "X", "Y", "Z">>

\* The digit value of a character, -1 when it is no digit or letter.
DigitOf(c) ==
    IF strchr(DIGITS, c) # 0 THEN strchr(DIGITS, c) - 1
    ELSE IF strchr(LOWER, c) # 0 THEN strchr(LOWER, c) + 9
    ELSE IF strchr(UPPER, c) # 0 THEN strchr(UPPER, c) + 9
    ELSE -1

\* strtol(b + p, &end, 0): the base comes from the prefix (0x: 16, 0: 8,
\* otherwise 10); digits are consumed while they are below the base.  The
\* result is the value modulo 2^32 and the end pointer.
RECURSIVE strtol_digits(_, _, _, _)
strtol_digits(b, s, base, val) ==
    LET dig == DigitOf(b[s])
    IN  IF dig < 0 \/ dig >= base THEN [val |-> val, end |-> s]
        ELSE strtol_digits(b, s + 1, base, U32MulAdd(val, base, dig))
strtol(b, p) ==
    IF b[p] = "0" /\ b[p + 1] = "x" THEN strtol_digits(b, p + 2, 16, U32Zero)
    ELSE IF b[p] = "0" THEN strtol_digits(b, p + 1, 8, U32Zero)
    ELSE strtol_digits(b, p, 10, U32Zero)

(***************************************************************************)
(* The command registry and the constant table.                            *)
(***************************************************************************)
S_help == <<"h", "e", "l", "p">>
S_kerninfo == <<"k", "e", "r", "n", "i", "n", "f", "o">>
S_backtrace == <<"b", "a", "c", "k", "t", "r", "a", "c", "e">>
S_pagemappings == <<"p", "a", "g", "e", "m", "a", "p", "p", "i", "n", "g", "s">>
S_memconst == <<"m", "e", "m", "c", "o", "n", "s", "t">>

commands == <<
    [name |-> S_help, func |-> "mon_help",
     desc |-> "Display this list of commands"],
    [name |-> S_kerninfo, func |-> "mon_kerninfo",
     desc |-> "Display information about the kernel"],
    [name |-> S_backtrace, func |-> "mon_backtrace",
     desc |-> "Display a backtrace"],
    [name |-> S_pagemappings, func |-> "mon_pagemappings",
     desc |-> "Display page mappings for a range of pages"],
    [name |-> S_memconst, func |-> "mon_memconst",
     desc |-> "Converts a memory constant to address"] >>
NCOMMANDS == Len(commands)

\* The if-chain of get_va_ref_point, in its order: the name compared and the
\* layout macro whose value is stored.  The macros' values live in
\* inc/memlayout.h; a value is named here by its macro.
VA_REF_POINTS == <<
    [name |-> <<"K", "E", "R", "N", "B", "A", "S", "E">>, macro |-> "KERNBASE"],
    [name |-> <<"I", "O", "P", "H", "Y", "S", "M", "E", "M">>, macro |-> "IOPHYSMEM"],
    [name |-> <<"E", "X", "T", "P", "H", "Y", "S", "M", "E", "M">>, macro |-> "EXTPHYSMEM"],
    [name |-> <<"K", "S", "T", "A", "C", "K", "T", "O", "P">>, macro |-> "KSTACKTOP"],
    [name |-> <<"K", "S", "T", "K", "S", "I", "Z", "E">>, macro |-> "KSTKSIZE"],
    [name |-> <<"K", "S", "T", "K", "G", "A", "P">>, macro |-> "KSTKGAP"],
    [name |-> <<"M", "M", "I", "O", "L", "I", "M">>, macro |-> "MMIOLIM"],
    [name |-> <<"M", "M", "I", "O", "B", "A", "S", "E">>, macro |-> "MMIOBASE"],
    [name |-> <<"U", "L", "I", "M">>, macro |-> "ULIM"],
    [name |-> <<"U", "V", "P", "T">>, macro |-> "UVPT"],
    [name |-> <<"U", "P", "A", "G", "E", "S">>, macro |-> "UPAGES"],
    [name |-> <<"U", "E", "N", "V", "S">>, macro |-> "UENVS"],
    [name |-> <<"U", "T", "O", "P">>, macro |-> "UTOP"],
    [name |-> <<"U", "X", "S", "T", "A", "C", "K", "T", "O", "P">>, macro |-> "UXSTACKTOP"],
    [name |-> <<"U", "S", "T", "A", "C", "K", "T", "O", "P">>, macro |-> "USTACKTOP"],
    [name |-> <<"U", "T", "E", "X", "T">>, macro |-> "UTEXT"],
    [name |-> <<"U", "T", "E", "M", "P">>, macro |-> "UTEMP"],
    [name |-> <<"P", "F", "T", "E", "M", "P">>, macro |-> "PFTEMP"],
    [name |-> <<"U", "S", "T", "A", "B", "D", "A", "T", "A">>, macro |-> "USTABDATA"] >>

\* get_va_ref_point(b + p, &va): the first entry whose name strcmp finds
\* equal sets va and returns 1; no entry returns 0 and leaves va alone.
RECURSIVE get_va_ref_point_from(_, _, _)
get_va_ref_point_from(b, p, i) ==
    IF i > Len(VA_REF_POINTS) THEN [ret |-> 0, va |-> "uninitialized"]
    ELSE IF strcmp(b, p, VA_REF_POINTS[i].name) = 0
         THEN [ret |-> 1, va |-> VA_REF_POINTS[i].macro]
    ELSE get_va_ref_point_from(b, p, i + 1)
get_va_ref_point(b, p) == get_va_ref_point_from(b, p, 1)

(***************************************************************************)
(* The inspected machine: stack memory, the frame-pointer register, the    *)
(* address-translation structure and the physical page count.              *)
(***************************************************************************)
\* Word addresses of the modelled stack region and the frames in it.
StackWords == {a \in 256 .. 351 : a % 4 = 0}
Frames == {256, 288, 320}
\* A stack image: word[0] of each frame is the saved frame pointer given by
\* links; every other word holds a value that names its own address.
StackImage(links) ==
    [a \in StackWords |-> IF a \in Frames THEN links[a] ELSE 32768 + a]
MemUp == StackImage([a \in Frames |-> IF a = 320 THEN 0 ELSE a + 32])
MemDown == StackImage([a \in Frames |-> IF a = 256 THEN 0 ELSE a - 32])
MemCycle == StackImage([a \in Frames |->
                           IF a = 256 THEN 288 ELSE IF a = 288 THEN 256 ELSE 0])

\* Page-table entry bits, in the order show_page_details tests them.
PTE_FLAGS == <<
    [bit |-> 1,   s |-> "P"],
    [bit |-> 2,   s |-> "W"],
    [bit |-> 4,   s |-> "U"],
    [bit |-> 8,   s |-> "PWT"],
    [bit |-> 16,  s |-> "PCD"],
    [bit |-> 32,  s |-> "A"],
    [bit |-> 64,  s |-> "D"],
    [bit |-> 128, s |-> "PS"],
    [bit |-> 256, s |-> "G"] >>

\* Translation structures: the pages that have an entry, with the entry
\* (frame number in pg, flag bits in off).  A page outside the domain has
\* no entry.
PageTableA ==
    [pg \in {1, 2, NPG - 1} |->
        IF pg = 1 THEN U32(5, 3)
        ELSE IF pg = 2 THEN U32(40, 1 + 4 + 32 + 64)
        ELSE U32(7, 1 + 2 + 256)]
PageTableB ==
    [pg \in {0, 1, 3, NPG - 2} |->
        IF pg = 0 THEN U32(0, 0)
        ELSE IF pg = 1 THEN U32(16, 1 + 8 + 16 + 128)
        ELSE IF pg = 3 THEN U32(15, 511)
        ELSE U32(NPG - 1, 1 + 2)]

Machines == {
    [mem |-> MemUp,    read_ebp |-> 256, pgtab |-> PageTableA, npages |-> 16],
    [mem |-> MemUp,    read_ebp |-> 288, pgtab |-> PageTableB, npages |-> 16],
    [mem |-> MemDown,  read_ebp |-> 320, pgtab |-> PageTableB, npages |-> 41],
    [mem |-> MemUp,    read_ebp |-> 320, pgtab |-> PageTableA, npages |-> 8],
    [mem |-> MemCycle, read_ebp |-> 256, pgtab |-> PageTableA, npages |-> 16] }

(***************************************************************************)
(* The lines the line source may return.                                   *)
(***************************************************************************)
T_Help == <<"H", "e", "l", "p">>
T_hel == <<"h", "e", "l">>
T_helpx == <<"h", "e", "l", "p", "x">>
T_a == <<"a">>
T_0x1000 == <<"0", "x", "1", "0", "0", "0">>
T_0x3000 == <<"0", "x", "3", "0", "0", "0">>
T_4096 == <<"4", "0", "9", "6">>
T_010000 == <<"0", "1", "0", "0", "0", "0">>
T_0x1fff == <<"0", "x", "1", "f", "f", "f">>
T_0x2FFF == <<"0", "x", "2", "F", "F", "F">>
T_0xfffff000 == <<"0", "x", "f", "f", "f", "f", "f", "0", "0", "0">>
T_0xffffe123 == <<"0", "x", "f", "f", "f", "f", "e", "1", "2", "3">>
T_12z == <<"1", "2", "z">>
T_08 == <<"0", "8">>
T_0x1g == <<"0", "x", "1", "g">>
T_kernbase == <<"k", "e", "r", "n", "b", "a", "s", "e">>
T_KERNBAS == <<"K", "E", "R", "N", "B", "A", "S">>
T_KERNBASEX == <<"K", "E", "R", "N", "B", "A", "S", "E", "X">>
T_bogus == <<"b", "o", "g", "u", "s">>

FirstWords == {S_help, S_kerninfo, S_backtrace, S_pagemappings, S_memconst,
               T_Help, T_hel, T_helpx}
GoodNums == {T_0x1000, T_0x3000, T_4096, T_010000, T_0x1fff, T_0x2FFF,
             T_0xfffff000, T_0xffffe123}
BadNums == {T_12z, T_08, T_0x1g}
NumWords == GoodNums \cup BadNums
ConstWords == {VA_REF_POINTS[i].name : i \in 1 .. Len(VA_REF_POINTS)}
                 \cup {T_kernbase, T_KERNBAS, T_KERNBASEX, T_bogus}

\* The token lists of the input lines: nothing; a first word followed by
\* 0..MaxFill filler arguments; pagemappings with one, two or three
\* numerals; memconst with a name.
TokenLists ==
    {<< >>}
    \cup {<<w>> \o [i \in 1 .. k |-> T_a] : w \in FirstWords, k \in 0 .. MaxFill}
    \cup {<<S_pagemappings, n>> : n \in NumWords}
    \cup {<<S_pagemappings, n, m>> : n \in NumWords, m \in NumWords}
    \cup {<<S_pagemappings, n, n, m>> : n \in {T_0x1000}, m \in {T_0x3000, T_12z}}
    \cup {<<S_memconst, c>> : c \in ConstWords}
    \cup {<<S_memconst, c, c>> : c \in {VA_REF_POINTS[1].name}}

\* How the tokens are laid out on the line: the whitespace before the first
\* token, between two tokens and after the last one.
Layouts == {
    [lead |-> << >>,        sep |-> <<" ">>,        trail |-> << >>],
    [lead |-> <<" ", "\t">>, sep |-> <<"\t", "\r">>, trail |-> <<"\n", " ">>] }

RECURSIVE JoinTokens(_, _)
JoinTokens(toks, sep) ==
    IF toks = << >> THEN << >>
    ELSE IF Len(toks) = 1 THEN toks[1]
    ELSE toks[1] \o sep \o JoinTokens(Tail(toks), sep)

Lines == {lay.lead \o JoinTokens(toks, lay.sep) \o lay.trail :
              toks \in TokenLists, lay \in Layouts}

(***************************************************************************)
(* State.                                                                  *)
(***************************************************************************)
VARIABLES
    mem,        \* stack memory: word address -> word
    read_ebp,   \* the frame-pointer register as read_ebp() returns it
    pgtab,      \* the address-translation structure: page -> entry
    npages,     \* the number of managed physical pages
    pc,         \* where monitor() stands
    rl,         \* what the last readline returned: "none", "line", "null"
    line,       \* the line as readline returned it (before tokenizing)
    buf,        \* the line buffer, closed by NUL, as runcmd rewrites it
    bp,         \* runcmd's scan pointer into buf
    argc,       \* runcmd's argument count
    argv,       \* runcmd's argument vector, slots 0 .. MAXARGS-1
    looked,     \* whether the registry was searched for this line
    calls,      \* the handlers invoked for this line
    out,        \* what was printed for this line
    lookups,    \* the addresses page_table_entry was asked for this line
    ebp,        \* mon_backtrace's frame pointer
    va_start,   \* mon_pagemappings' loop variable
    va_end,     \* mon_pagemappings' range end
    iter,       \* iterations of the running handler's loop so far
    ret         \* what runcmd returned for this line

machine == <<mem, read_ebp, pgtab, npages>>
locals == <<ebp, va_start, va_end, iter>>
vars == <<mem, read_ebp, pgtab, npages, pc, rl, line, buf, bp, argc, argv,
          looked, calls, out, lookups, ebp, va_start, va_end, iter, ret>>

\* The content of an argv slot that was never written.
GARBAGE == -1
\* char *argv[MAXARGS], fresh on the stack, after argv[0] = 0.
FreshArgv == [i \in 0 .. MAXARGS - 1 |-> IF i = 0 THEN 0 ELSE GARBAGE]

\* monitor() is entered on machine m.
InitMachine(m) ==
    /\ mem = m.mem
    /\ read_ebp = m.read_ebp
    /\ pgtab = m.pgtab
    /\ npages = m.npages
    /\ pc = "prompt"
    /\ rl = "none"
    /\ line = << >>
    /\ buf = << >>
    /\ bp = 0
    /\ argc = 0
    /\ argv = FreshArgv
    /\ looked = FALSE
    /\ calls = << >>
    /\ out = << >>
    /\ lookups = << >>
    /\ ebp = 0
    /\ va_start = U32Zero
    /\ va_end = U32Zero
    /\ iter = 0
    /\ ret = 0

Init == \E m \in Machines : InitMachine(m)

(***************************************************************************)
(* monitor(): the prompt.                                                  *)
(***************************************************************************)
\* readline returns a line; runcmd starts on it (argc = 0; argv[argc] = 0).
Readline(l) ==
    /\ pc = "prompt"
    /\ pc' = "tokenize"
    /\ rl' = "line"
    /\ line' = l
    /\ buf' = l \o <<NUL>>
    /\ bp' = 1
    /\ argc' = 0
    /\ argv' = FreshArgv
    /\ looked' = FALSE
    /\ calls' = << >>
    /\ out' = << >>
    /\ lookups' = << >>
    /\ ebp' = 0
    /\ va_start' = U32Zero
    /\ va_end' = U32Zero
    /\ iter' = 0
    /\ ret' = 0
    /\ UNCHANGED machine

\* readline returns NULL: runcmd is not called and the loop goes round.
\* Faulty variant of ReadlineNull: a NULL line leaves the loop.
ReadlineNull_Exits ==
    /\ pc = "prompt"
    /\ pc' = "exited"
    /\ rl' = "null"
    /\ UNCHANGED <<machine, locals, line, buf, bp, argc, argv, looked, calls,
                   out, lookups, ret>>
ReadlineNull ==
    /\ pc = "prompt"
    /\ pc' = "prompt"
    /\ rl' = "null"
    /\ line' = << >>
    /\ buf' = << >>
    /\ bp' = 0
    /\ argc' = 0
    /\ argv' = FreshArgv
    /\ looked' = FALSE
    /\ calls' = << >>
    /\ out' = << >>
    /\ lookups' = << >>
    /\ ebp' = 0
    /\ va_start' = U32Zero
    /\ va_end' = U32Zero
    /\ iter' = 0
    /\ ret' = 0
    /\ UNCHANGED machine

(***************************************************************************)
(* runcmd(): the tokenizer, one turn of its outer loop per step.           *)
(***************************************************************************)
\* Faulty variant of IsSpace: carriage return is not taken for whitespace.
IsSpace_NoCR(c) == c # "\r" /\ strchr(WHITESPACE, c) # 0
IsSpace(c) == strchr(WHITESPACE, c) # 0

\* while (*buf && strchr(WHITESPACE, *buf)) *buf++ = 0;
RECURSIVE gobble(_, _)
gobble(b, p) ==
    IF b[p] # NUL /\ IsSpace(b[p])
    THEN gobble([b EXCEPT ![p] = NUL], p + 1)
    ELSE [buf |-> b, p |-> p]

\* while (*buf && !strchr(WHITESPACE, *buf)) buf++;
RECURSIVE scan(_, _)
scan(b, p) ==
    IF b[p] # NUL /\ ~IsSpace(b[p]) THEN scan(b, p + 1) ELSE p

\* Faulty variant of ArgvFull: the vector counts as full one slot early.
ArgvFull_Early(n) == n = MAXARGS - 2
\* if (argc == MAXARGS-1)
\* Faulty variant of ArgvFull: the test lets a 16th token in.
ArgvFull_Late(n) == n = MAXARGS
ArgvFull(n) == n = MAXARGS - 1

\* The outer loop ends at the terminator: argv[argc] = 0.
TokEnd ==
    /\ pc = "tokenize"
    /\ LET g == gobble(buf, bp)
       IN  /\ g.buf[g.p] = NUL
           /\ buf' = g.buf
           /\ bp' = g.p
    /\ argv' = [argv EXCEPT ![argc] = 0]
    /\ pc' = "lookup"
    /\ UNCHANGED <<machine, locals, rl, line, argc, looked, calls, out,
                   lookups, ret>>

\* A further token while the vector is full: message, return 0.
TokTooMany ==
    /\ pc = "tokenize"
    /\ LET g == gobble(buf, bp)
       IN  /\ g.buf[g.p] # NUL
           /\ buf' = g.buf
           /\ bp' = g.p
    /\ ArgvFull(argc)
    /\ out' = Append(out, [t |-> "too_many_arguments", max |-> MAXARGS])
    /\ ret' = 0
    /\ pc' = "returned"
    /\ UNCHANGED <<machine, locals, rl, line, argc, argv, looked, calls,
                   lookups>>

\* A further token: argv[argc++] = buf, then scan past it.
TokArg ==
    /\ pc = "tokenize"
    /\ ~ArgvFull(argc)
    /\ LET g == gobble(buf, bp)
       IN  /\ g.buf[g.p] # NUL
           /\ buf' = g.buf
           /\ argv' = [argv EXCEPT ![argc] = g.p]
           /\ bp' = scan(g.buf, g.p)
    /\ argc' = argc + 1
    /\ UNCHANGED <<machine, locals, rl, line, looked, calls, out, lookups,
                   ret, pc>>

(***************************************************************************)
(* runcmd(): lookup and invocation.                                        *)
(***************************************************************************)
\* if (argc == 0) return 0;
\* Faulty variant of NoCommand: a line without a token returns -1.
NoCommand_Fails ==
    /\ pc = "lookup"
    /\ argc = 0
    /\ ret' = -1
    /\ pc' = "returned"
    /\ UNCHANGED <<machine, locals, rl, line, buf, bp, argc, argv, looked,
                   calls, out, lookups>>
\* if (argc == 0) return 0;
NoCommand ==
    /\ pc = "lookup"
    /\ argc = 0
    /\ ret' = 0
    /\ pc' = "returned"
    /\ UNCHANGED <<machine, locals, rl, line, buf, bp, argc, argv, looked,
                   calls, out, lookups>>

\* The for loop over commands[]: the index of the first entry whose name
\* strcmp finds equal to argv[0], 0 when there is none.
RECURSIVE lookup_from(_, _, _)
lookup_from(b, p, i) ==
    IF i > NCOMMANDS THEN 0
    ELSE IF strcmp(b, p, commands[i].name) = 0 THEN i
    ELSE lookup_from(b, p, i + 1)
Found == lookup_from(buf, argv[0], 1)
Handler == IF Found = 0 THEN "none" ELSE commands[Found].func

\* The registry is searched and commands[i].func(argc, argv, tf) is entered.
Invoked(f) ==
    /\ pc = "lookup"
    /\ argc # 0
    /\ Handler = f
    /\ looked' = TRUE

\* The record of a handler that is running, and of one that returned r.
Running(f) == [func |-> f, argc |-> argc, done |-> FALSE, ret |-> 0]
Returned(f, r) == [func |-> f, argc |-> argc, done |-> TRUE, ret |-> r]

\* Faulty variant of UnknownCommand: an unknown command returns -1.
UnknownCommand_Fails ==
    /\ Invoked("none")
    /\ out' = Append(out, [t |-> "unknown_command",
                           name |-> CStr(buf, argv[0])])
    /\ ret' = -1
    /\ pc' = "returned"
    /\ UNCHANGED <<machine, locals, rl, line, buf, bp, argc, argv, calls,
                   lookups>>
\* No entry matches: message, return 0.
UnknownCommand ==
    /\ Invoked("none")
    /\ out' = Append(out, [t |-> "unknown_command",
                           name |-> CStr(buf, argv[0])])
    /\ ret' = 0
    /\ pc' = "returned"
    /\ UNCHANGED <<machine, locals, rl, line, buf, bp, argc, argv, calls,
                   lookups>>

(***************************************************************************)
(* mon_help, mon_kerninfo.                                                 *)
(***************************************************************************)
\* Faulty variant of mon_help: arguments are refused with status -1.
mon_help_Validates ==
    /\ Invoked("mon_help")
    /\ out' = IF argc > 1 THEN Append(out, [t |-> "usage"])
              ELSE out \o [i \in 1 .. NCOMMANDS |->
                              [t |-> "help", name |-> commands[i].name,
                               desc |-> commands[i].desc]]
    /\ calls' = Append(calls, Returned("mon_help", IF argc > 1 THEN -1 ELSE 0))
    /\ ret' = IF argc > 1 THEN -1 ELSE 0
    /\ pc' = "returned"
    /\ UNCHANGED <<machine, locals, rl, line, buf, bp, argc, argv, lookups>>
mon_help ==
    /\ Invoked("mon_help")
    /\ out' = out \o [i \in 1 .. NCOMMANDS |->
                         [t |-> "help", name |-> commands[i].name,
                          desc |-> commands[i].desc]]
    /\ calls' = Append(calls, Returned("mon_help", 0))
    /\ ret' = 0
    /\ pc' = "returned"
    /\ UNCHANGED <<machine, locals, rl, line, buf, bp, argc, argv, lookups>>

\* The seven printouts of mon_kerninfo, by what each one shows.
KernInfoLines == <<"header", "_start", "entry", "etext", "edata", "end",
                   "footprint">>

mon_kerninfo ==
    /\ Invoked("mon_kerninfo")
    /\ out' = out \o [i \in 1 .. Len(KernInfoLines) |->
                         [t |-> "kerninfo", what |-> KernInfoLines[i]]]
    /\ calls' = Append(calls, Returned("mon_kerninfo", 0))
    /\ ret' = 0
    /\ pc' = "returned"
    /\ UNCHANGED <<machine, locals, rl, line, buf, bp, argc, argv, lookups>>

(***************************************************************************)
(* mon_backtrace, one turn of its while loop per step.                     *)
(***************************************************************************)
\* ref[i] for ref = (uint32_t *) e
Ref(e, i) == mem[e + 4 * i]

\* Faulty variant of FrameLine: the argument words start one word early.
FrameLine_Shifted(e) ==
    [t |-> "frame", ebp |-> e, eip |-> Ref(e, 1),
     args |-> <<Ref(e, 1), Ref(e, 2), Ref(e, 3), Ref(e, 4)>>]
\* The first printout of a frame: ebp, eip and the four argument words.
FrameLine(e) ==
    [t |-> "frame", ebp |-> e, eip |-> Ref(e, 1),
     args |-> <<Ref(e, 2), Ref(e, 3), Ref(e, 4), Ref(e, 5)>>]
\* The second printout: what debuginfo_eip gave for ref[1].
SymbolLine(e) == [t |-> "symbol", eip |-> Ref(e, 1)]
\* ebp = ref[0]
NextFrame(e) == Ref(e, 0)

mon_backtrace ==
    /\ Invoked("mon_backtrace")
    /\ ebp' = read_ebp
    /\ out' = Append(out, [t |-> "backtrace_header"])
    /\ calls' = Append(calls, Running("mon_backtrace"))
    /\ pc' = "backtrace"
    /\ UNCHANGED <<machine, rl, line, buf, bp, argc, argv, lookups,
                   va_start, va_end, iter, ret>>

BacktraceFrame ==
    /\ pc = "backtrace"
    /\ ebp > 0
    /\ iter < MaxIter
    /\ out' = out \o <<FrameLine(ebp), SymbolLine(ebp)>>
    /\ ebp' = NextFrame(ebp)
    /\ iter' = iter + 1
    /\ UNCHANGED <<machine, rl, line, buf, bp, argc, argv, looked, calls,
                   lookups, va_start, va_end, ret, pc>>

\* Faulty variant of BacktraceReturn: the walk gives up after four frames.
BacktraceReturn_Bounded ==
    /\ pc = "backtrace"
    /\ ~(ebp > 0) \/ iter > 3
    /\ calls' = <<Returned("mon_backtrace", 0)>>
    /\ ret' = 0
    /\ pc' = "returned"
    /\ UNCHANGED <<machine, locals, rl, line, buf, bp, argc, argv, looked,
                   out, lookups>>
BacktraceReturn ==
    /\ pc = "backtrace"
    /\ ~(ebp > 0)
    /\ calls' = <<Returned("mon_backtrace", 0)>>
    /\ ret' = 0
    /\ pc' = "returned"
    /\ UNCHANGED <<machine, locals, rl, line, buf, bp, argc, argv, looked,
                   out, lookups>>

(***************************************************************************)
(* show_page_details and mon_pagemappings, one turn of the for loop per    *)
(* step.                                                                   *)
(***************************************************************************)
\* page_table_entry(va): the entry of va's page, or NULL.
page_table_entry(va) ==
    IF va.pg \in DOMAIN pgtab
    THEN [null |-> FALSE, pte |-> pgtab[va.pg]]
    ELSE [null |-> TRUE, pte |-> U32Zero]

\* Faulty variant of PTE_ADDR: the flag bits are left in the address.
PTE_ADDR_Unmasked(pte) == pte
PTE_ADDR(pte) == U32(pte.pg, 0)
PGNUM(pa) == pa.pg
\* Faulty variant of NoMemory: the first frame past the managed pages is
\* taken for backed.
NoMemory_Strict(pa) == PGNUM(pa) > npages
\* if (PGNUM(PTE_ADDR(*pte)) >= npages)
NoMemory(pa) == PGNUM(pa) >= npages
\* Faulty variant of FlagSet: a logical and in place of the bitwise one.
FlagSet_Logical(pte, bit) == pte # U32Zero /\ bit # 0
\* *pte & bit
FlagSet(pte, bit) == (pte.off \div bit) % 2 = 1

\* The if-chain over the flag bits: cprintf_sep prints the separator when
\* comma is set, then the mnemonic, and sets comma.
RECURSIVE FlagPrints(_, _, _)
FlagPrints(pte, i, comma) ==
    IF i > Len(PTE_FLAGS) THEN << >>
    ELSE IF FlagSet(pte, PTE_FLAGS[i].bit)
         THEN (IF comma # 0 THEN <<",">> ELSE << >>)
                  \o <<PTE_FLAGS[i].s>> \o FlagPrints(pte, i + 1, 1)
    ELSE FlagPrints(pte, i + 1, comma)

\* The line show_page_details(va) prints.
show_page_details(va) ==
    LET e == page_table_entry(va)
    IN  IF e.null
        THEN [t |-> "page", va |-> va, mapped |-> FALSE]
        ELSE [t |-> "page", va |-> va, mapped |-> TRUE,
              pa |-> PTE_ADDR(e.pte),
              flags |-> FlagPrints(e.pte, 1, 0),
              nomem |-> NoMemory(PTE_ADDR(e.pte))]

\* if (argc < 2) ... if (argc > 3)
TooFewArgs(n) == n < 2
\* Faulty variant of TooManyArgs: a third argument is let through.
TooManyArgs_Four(n) == n > 4
TooManyArgs(n) == n > 3
\* Faulty variant of Unparsed: only a numeral with no digits at all is refused.
Unparsed_NoDigits(b, p) == strtol(b, p).end = p
\* str_end != strfind(arg, '\0') after strtol(arg, &str_end, 0)
Unparsed(b, p) == strtol(b, p).end # strfind(b, p, NUL)
\* va_end is parsed from argv[2] if (argc == 3)
HasSecond(n) == n = 3

\* mon_pagemappings up to its loop: the status, the message of a failure,
\* and the masked range.
pagemappings_args(b, n, av) ==
    LET fail(m) == [ret |-> -1, out |-> <<m>>,
                    va_start |-> U32Zero, va_end |-> U32Zero]
    IN  IF TooFewArgs(n) THEN fail([t |-> "pagemappings_too_few"])
        ELSE IF TooManyArgs(n) THEN fail([t |-> "pagemappings_too_many"])
        ELSE IF Unparsed(b, av[1])
             THEN fail([t |-> "pagemappings_unparsed", which |-> "first",
                        arg |-> CStr(b, av[1])])
        ELSE IF HasSecond(n) /\ Unparsed(b, av[2])
             THEN fail([t |-> "pagemappings_unparsed", which |-> "second",
                        arg |-> CStr(b, av[2])])
        ELSE [ret |-> 0, out |-> << >>,
              va_start |-> U32PageMask(strtol(b, av[1]).val),
              va_end |-> U32PageMask(IF HasSecond(n)
                                     THEN strtol(b, av[2]).val
                                     ELSE strtol(b, av[1]).val)]

mon_pagemappings ==
    /\ Invoked("mon_pagemappings")
    /\ LET r == pagemappings_args(buf, argc, argv)
       IN  /\ out' = out \o r.out
           /\ va_start' = r.va_start
           /\ va_end' = r.va_end
           /\ IF r.ret < 0
              THEN /\ calls' = Append(calls, Returned("mon_pagemappings", r.ret))
                   /\ ret' = r.ret
                   /\ pc' = "returned"
              ELSE /\ calls' = Append(calls, Running("mon_pagemappings"))
                   /\ ret' = ret
                   /\ pc' = "pagemappings"
    /\ UNCHANGED <<machine, rl, line, buf, bp, argc, argv, lookups, ebp,
                   iter>>

\* Faulty variant of PagemappingsPage: the lookup marks the entry accessed.
PagemappingsPage_SetsAccessed ==
    /\ pc = "pagemappings"
    /\ U32Leq(va_start, va_end)
    /\ iter < MaxIter
    /\ lookups' = Append(lookups, va_start)
    /\ out' = Append(out, show_page_details(va_start))
    /\ va_start' = U32AddPage(va_start)
    /\ iter' = iter + 1
    /\ pgtab' = [pg \in DOMAIN pgtab |->
                    IF pg = va_start.pg /\ ~FlagSet(pgtab[pg], 32)
                    THEN U32(pgtab[pg].pg, pgtab[pg].off + 32)
                    ELSE pgtab[pg]]
    /\ UNCHANGED <<mem, read_ebp, npages, rl, line, buf, bp, argc, argv,
                   looked, calls, ebp, va_end, ret, pc>>
\* for (; va_start <= va_end; va_start += PGSIZE) show_page_details(va_start);
PagemappingsPage ==
    /\ pc = "pagemappings"
    /\ U32Leq(va_start, va_end)
    /\ iter < MaxIter
    /\ lookups' = Append(lookups, va_start)
    /\ out' = Append(out, show_page_details(va_start))
    /\ va_start' = U32AddPage(va_start)
    /\ iter' = iter + 1
    /\ UNCHANGED <<machine, rl, line, buf, bp, argc, argv, looked, calls,
                   ebp, va_end, ret, pc>>

PagemappingsReturn ==
    /\ pc = "pagemappings"
    /\ ~U32Leq(va_start, va_end)
    /\ calls' = <<Returned("mon_pagemappings", 0)>>
    /\ ret' = 0
    /\ pc' = "returned"
    /\ UNCHANGED <<machine, locals, rl, line, buf, bp, argc, argv, looked,
                   out, lookups>>

(***************************************************************************)
(* mon_memconst.                                                           *)
(***************************************************************************)
\* Faulty variant of NotOneArg: further arguments are let through.
NotOneArg_AtLeast(n) == n < 2
\* if (2 != argc)
NotOneArg(n) == 2 # n

\* Faulty variant of memconst_result: an unknown constant returns 0.
memconst_result_Lenient(b, n, av) ==
    IF NotOneArg(n)
    THEN [ret |-> -1, out |-> <<[t |-> "memconst_usage"]>>]
    ELSE LET r == get_va_ref_point(b, av[1])
         IN  IF r.ret # 0
             THEN [ret |-> 0,
                   out |-> <<[t |-> "memconst", name |-> CStr(b, av[1]),
                              va |-> r.va]>>]
             ELSE [ret |-> 0,
                   out |-> <<[t |-> "memconst_unknown",
                              name |-> CStr(b, av[1])]>>]

\* The status and the printout of mon_memconst.
memconst_result(b, n, av) ==
    IF NotOneArg(n)
    THEN [ret |-> -1, out |-> <<[t |-> "memconst_usage"]>>]
    ELSE LET r == get_va_ref_point(b, av[1])
         IN  IF r.ret # 0
             THEN [ret |-> 0,
                   out |-> <<[t |-> "memconst", name |-> CStr(b, av[1]),
                              va |-> r.va]>>]
             ELSE [ret |-> -1,
                   out |-> <<[t |-> "memconst_unknown",
                              name |-> CStr(b, av[1])]>>]

mon_memconst ==
    /\ Invoked("mon_memconst")
    /\ LET r == memconst_result(buf, argc, argv)
       IN  /\ out' = out \o r.out
           /\ calls' = Append(calls, Returned("mon_memconst", r.ret))
           /\ ret' = r.ret
    /\ pc' = "returned"
    /\ UNCHANGED <<machine, locals, rl, line, buf, bp, argc, argv, lookups>>

(***************************************************************************)
(* monitor(): the test of runcmd's result.                                 *)
(***************************************************************************)
\* Faulty variant of Breaks: a zero status leaves the loop too.
Breaks_OnZero(r) == r <= 0
\* if (runcmd(buf, tf) < 0) break;
Breaks(r) == r < 0

MonitorBreak ==
    /\ pc = "returned"
    /\ Breaks(ret)
    /\ pc' = "exited"
    /\ UNCHANGED <<machine, locals, rl, line, buf, bp, argc, argv, looked,
                   calls, out, lookups, ret>>

MonitorContinue ==
    /\ pc = "returned"
    /\ ~Breaks(ret)
    /\ pc' = "prompt"
    /\ UNCHANGED <<machine, locals, rl, line, buf, bp, argc, argv, looked,
                   calls, out, lookups, ret>>

Next ==
    \/ \E l \in Lines : Readline(l)
    \/ ReadlineNull
    \/ TokEnd
    \/ TokTooMany
    \/ TokArg
    \/ NoCommand
    \/ UnknownCommand
    \/ mon_help
    \/ mon_kerninfo
    \/ mon_backtrace
    \/ BacktraceFrame
    \/ BacktraceReturn
    \/ mon_pagemappings
    \/ PagemappingsPage
    \/ PagemappingsReturn
    \/ mon_memconst
    \/ MonitorBreak
    \/ MonitorContinue

Spec == Init /\ [][Next]_vars

(***************************************************************************)
(* The page-mapping inspector over every combination of the nine flags:    *)
(* machines whose page 1 carries the flag bits f and whose page 3 carries  *)
(* the complement of f, inspected by pagemappings on page 1 alone and on   *)
(* pages 1 to 3.                                                           *)
(***************************************************************************)
AllFlags == 2 ^ Len(PTE_FLAGS) - 1
FlagMachines ==
    {[mem |-> MemUp, read_ebp |-> 256, npages |-> 16,
      pgtab |-> [pg \in {1, 3} |->
                    IF pg = 1 THEN U32(5, f) ELSE U32(6, AllFlags - f)]] :
        f \in 0 .. AllFlags}
FlagLines ==
    {JoinTokens(<<S_pagemappings, T_0x1000>>, <<" ">>),
     JoinTokens(<<S_pagemappings, T_0x1000, T_0x3000>>, <<" ">>)}

InitFlags == \E m \in FlagMachines : InitMachine(m)
NextFlags ==
    \/ \E l \in FlagLines : Readline(l)
    \/ TokEnd
    \/ TokArg
    \/ mon_pagemappings
    \/ PagemappingsPage
    \/ PagemappingsReturn
    \/ MonitorContinue
SpecFlags == InitFlags /\ [][NextFlags]_vars

(***************************************************************************)
(* What the input line says, read off the line itself: its maximal runs    *)
(* of non-whitespace characters.                                           *)
(***************************************************************************)
WsChars == {"\t", "\r", "\n", " "}
RunStarts(l) ==
    {i \in 1 .. Len(l) : l[i] \notin WsChars /\ (i = 1 \/ l[i - 1] \in WsChars)}
RunEnd(l, i) ==
    CHOOSE j \in i .. Len(l) :
        /\ \A k \in i .. j : l[k] \notin WsChars
        /\ j = Len(l) \/ l[j + 1] \in WsChars
NumRuns(l) == Cardinality(RunStarts(l))
\* The k-th run, counting from 0.
RunStart(l, k) ==
    CHOOSE i \in RunStarts(l) : Cardinality({j \in RunStarts(l) : j < i}) = k
Run(l, k) == SubSeq(l, RunStart(l, k), RunEnd(l, RunStart(l, k)))

\* runcmd has left its tokenizer on the line readline returned.
Tokenized == rl = "line" /\ pc # "tokenize"
\* runcmd has returned for the line readline returned.
LineDone == rl = "line" /\ pc \in {"returned", "prompt", "exited"}
RegisteredNames == {S_help, S_kerninfo, S_backtrace, S_pagemappings, S_memconst}

\* argc is the number of runs and argv[i] is the i-th run, verbatim.
ArgsAreRuns ==
    /\ argc = NumRuns(line)
    /\ \A i \in 0 .. argc - 1 :
          /\ argv[i] \in 1 .. Len(buf)
          /\ CStr(buf, argv[i]) = Run(line, i)

(***************************************************************************)
(* Claims.                                                                 *)
(***************************************************************************)
\* C1 (as stated): for any input line, once the tokenizer is done the
\* argument count equals the number of maximal non-whitespace runs and
\* argument i is the i-th run verbatim, in left-to-right order.
C1_AnyLine == Tokenized => ArgsAreRuns

\* C1 (amended): for any input line with at most 15 maximal non-whitespace
\* runs, once the tokenizer is done the argument count equals the number
\* of runs and argument i is the i-th run verbatim, in left-to-right order.
C1_UpTo15Runs == Tokenized /\ NumRuns(line) <= 15 => ArgsAreRuns

\* A 15-token line laid out with leading blanks, tabs and carriage
\* returns has been tokenized.
C1_Witness ==
    /\ pc = "lookup"
    /\ NumRuns(line) = 15
    /\ line[1] = " "
    /\ argc = 15

\* C2: after a dispatch the loop reads another line exactly when the status
\* is zero or positive and leaves for good exactly when it is negative;
\* at most one handler is invoked per line and the status of a dispatched
\* line is that handler's result.
C2_Status ==
    /\ Len(calls) <= 1
    /\ pc \in {"returned", "prompt", "exited"} /\ calls # << >> =>
          calls[1].done /\ ret = calls[1].ret
C2_Step ==
    /\ pc = "returned" /\ ret >= 0 => pc' = "prompt"
    /\ pc = "returned" /\ ret < 0 => pc' = "exited"
    /\ pc' = "exited" => pc = "returned" /\ ret < 0
    /\ pc # "exited"
C2_LoopFollowsStatus == []C2_Status /\ [][C2_Step]_vars

\* The loop was left after a handler returned a negative status.
C2_Witness ==
    /\ pc = "exited"
    /\ Len(calls) = 1
    /\ calls[1].ret < 0

\* C3: a line of more than 15 tokens makes no registry lookup and invokes
\* no handler, whatever its first token, prints the too-many-arguments
\* message, reports status 0 and the loop prompts again; a line of exactly
\* 15 tokens is tokenized and dispatched (its registered first token's
\* handler is invoked with 15 arguments).
C3_TooManyAborts ==
    /\ Tokenized /\ NumRuns(line) > 15 =>
          /\ ~looked
          /\ calls = << >>
          /\ out = <<[t |-> "too_many_arguments", max |-> 16]>>
          /\ ret = 0
          /\ pc \in {"returned", "prompt"}
    /\ LineDone /\ NumRuns(line) = 15 =>
          /\ looked
          /\ argc = 15
          /\ Run(line, 0) \in RegisteredNames =>
                Len(calls) = 1 /\ calls[1].argc = 15

\* A 16-token line that starts with pagemappings has been aborted.
C3_Witness ==
    /\ pc = "returned"
    /\ NumRuns(line) = 16
    /\ Run(line, 0) = S_pagemappings

\* C4: when the first token equals no registered command name exactly, no
\* handler is invoked, the only printout is Unknown command '<token>', the
\* status is 0 and the loop goes on to the next prompt.
C4_UnknownContinues ==
    LineDone /\ NumRuns(line) \in 1 .. 15
             /\ Run(line, 0) \notin RegisteredNames =>
        /\ calls = << >>
        /\ out = <<[t |-> "unknown_command", name |-> Run(line, 0)]>>
        /\ ret = 0
        /\ pc # "exited"

\* The loop is back at the prompt after "Help", which differs from a
\* registered name only in case.
C4_Witness ==
    /\ pc = "prompt"
    /\ rl = "line"
    /\ NumRuns(line) >= 1
    /\ Run(line, 0) = T_Help
    /\ looked

\* The 32-bit value each well-formed numeral of the input denotes.
NumValue(w) ==
    CASE w = T_0x1000 -> U32(1, 0)
      [] w = T_0x3000 -> U32(3, 0)
      [] w = T_4096 -> U32(1, 0)
      [] w = T_010000 -> U32(1, 0)
      [] w = T_0x1fff -> U32(1, 4095)
      [] w = T_0x2FFF -> U32(2, 4095)
      [] w = T_0xfffff000 -> U32(NPG - 1, 0)
      [] w = T_0xffffe123 -> U32(NPG - 2, 291)
\* Numerals whose numeric prefix stops short of their end.
Malformed == {T_12z, T_08, T_0x1g, T_a}

\* The line is pagemappings with one or two well-formed numerals.
GoodRange ==
    /\ NumRuns(line) \in {2, 3}
    /\ Run(line, 0) = S_pagemappings
    /\ \A k \in 1 .. NumRuns(line) - 1 : Run(line, k) \in GoodNums
\* Its start and end pages (the end defaults to the start).
RangeStart == NumValue(Run(line, 1)).pg
RangeEnd == NumValue(Run(line, NumRuns(line) - 1)).pg

\* C5: for pagemappings with well-formed start and end (end defaulting to
\* start), the pages examined are exactly start, start+4096, ..., end after
\* masking, in ascending order, each once; none when start > end, without
\* an error.
C5_PagesInRangeOnce ==
    rl = "line" /\ pc \notin {"tokenize", "lookup"} /\ GoodRange =>
        /\ \A k \in 1 .. Len(lookups) :
              /\ lookups[k] = U32(RangeStart + k - 1, 0)
              /\ RangeStart + k - 1 <= RangeEnd
        /\ LineDone =>
              /\ Len(lookups) = IF RangeStart > RangeEnd THEN 0
                                ELSE RangeEnd - RangeStart + 1
              /\ ret = 0

\* C6: pagemappings with no argument or with three or more arguments
\* prints one failure message and asks the address-space accessor nothing.
C6_BadCountNoLookups ==
    rl = "line" /\ pc \notin {"tokenize", "lookup"}
                /\ NumRuns(line) \in {1} \cup 4 .. 15
                /\ Run(line, 0) = S_pagemappings =>
        /\ lookups = << >>
        /\ pc # "pagemappings"
        /\ Len(calls) = 1 /\ calls[1].func = "mon_pagemappings"
        /\ out = <<[t |-> IF NumRuns(line) = 1 THEN "pagemappings_too_few"
                          ELSE "pagemappings_too_many"]>>

\* pagemappings was given three well-formed numerals and has returned.
C6_Witness ==
    /\ LineDone
    /\ NumRuns(line) = 4
    /\ Run(line, 0) = S_pagemappings
    /\ Run(line, 3) = T_0x3000
    /\ lookups = << >>

\* C7: a pagemappings argument whose numeric prefix stops short of its end
\* makes pagemappings fail with a message naming that argument (first or
\* second) and examine no page; so does a malformed second argument after
\* a well-formed first one.
C7_UnparsedNoLookups ==
    rl = "line" /\ pc \notin {"tokenize", "lookup"}
                /\ NumRuns(line) \in {2, 3}
                /\ Run(line, 0) = S_pagemappings =>
        /\ Run(line, 1) \in Malformed =>
              /\ out = <<[t |-> "pagemappings_unparsed", which |-> "first",
                          arg |-> Run(line, 1)]>>
              /\ lookups = << >>
              /\ pc # "pagemappings"
        /\ NumRuns(line) = 3 /\ Run(line, 1) \in GoodNums
                             /\ Run(line, 2) \in Malformed =>
              /\ out = <<[t |-> "pagemappings_unparsed", which |-> "second",
                          arg |-> Run(line, 2)]>>
              /\ lookups = << >>
              /\ pc # "pagemappings"

\* pagemappings has returned on a well-formed first and a malformed second
\* argument.
C7_Witness ==
    /\ LineDone
    /\ NumRuns(line) = 3
    /\ Run(line, 0) = S_pagemappings
    /\ Run(line, 1) = T_0x1000
    /\ Run(line, 2) = T_12z

\* The names of the constant table.
TableNames == {VA_REF_POINTS[i].name : i \in 1 .. Len(VA_REF_POINTS)}
\* The line fails a handler's argument validation.
ValidationFailure ==
    /\ NumRuns(line) \in 1 .. 15
    /\ \/ /\ Run(line, 0) = S_pagemappings
          /\ \/ NumRuns(line) \notin {2, 3}
             \/ \E k \in 1 .. NumRuns(line) - 1 : Run(line, k) \in Malformed
       \/ /\ Run(line, 0) = S_memconst
          /\ \/ NumRuns(line) # 2
             \/ Run(line, 1) \notin TableNames

\* C8: every argument-validation failure of pagemappings or memconst
\* returns a negative status, the loop is left, and no line is read after
\* it.
C8_Failed ==
    rl = "line" /\ ValidationFailure =>
        /\ pc \in {"tokenize", "lookup", "returned", "exited"}
        /\ pc \in {"returned", "exited"} =>
              /\ ret < 0
              /\ Len(calls) = 1 /\ calls[1].ret < 0
C8_Step ==
    /\ pc = "returned" /\ rl = "line" /\ ValidationFailure => pc' = "exited"
    /\ pc = "exited" => pc' = "exited" /\ line' = line /\ rl' = rl
C8_ValidationFailureEndsLoop == []C8_Failed /\ [][C8_Step]_vars

\* The loop was left after memconst was given an unknown constant.
C8_Witness ==
    /\ pc = "exited"
    /\ NumRuns(line) = 2
    /\ Run(line, 0) = S_memconst
    /\ Run(line, 1) = T_bogus

\* C9: memconst takes exactly one argument; given a table name verbatim it
\* prints that name with the table's value for it and returns a continue
\* status; given anything else it prints no value and fails with a message
\* naming the unknown constant.
C9_MemconstTable ==
    LineDone /\ NumRuns(line) \in 1 .. 15 /\ Run(line, 0) = S_memconst =>
        /\ NumRuns(line) # 2 =>
              out = <<[t |-> "memconst_usage"]>> /\ ret < 0
        /\ NumRuns(line) = 2 /\ Run(line, 1) \in TableNames =>
              /\ \E i \in 1 .. Len(VA_REF_POINTS) :
                    /\ VA_REF_POINTS[i].name = Run(line, 1)
                    /\ out = <<[t |-> "memconst", name |-> Run(line, 1),
                                va |-> VA_REF_POINTS[i].macro]>>
              /\ ret >= 0
        /\ NumRuns(line) = 2 /\ Run(line, 1) \notin TableNames =>
              /\ out = <<[t |-> "memconst_unknown", name |-> Run(line, 1)]>>
              /\ ret < 0

\* memconst has printed the value of the last name of the table.
C9_Witness ==
    /\ LineDone
    /\ NumRuns(line) = 2
    /\ Run(line, 0) = S_memconst
    /\ out = <<[t |-> "memconst", name |-> VA_REF_POINTS[19].name,
                va |-> "USTABDATA"]>>

\* The frame-pointer chain from e, read off the stack image, followed for
\* at most n frames.
RECURSIVE ChainFrom(_, _)
ChainFrom(e, n) ==
    IF e = 0 \/ n = 0 THEN << >> ELSE <<e>> \o ChainFrom(mem[e], n - 1)
Chain == ChainFrom(read_ebp, Cardinality(Frames))
\* The chain ends in a zero saved frame pointer.
ChainEnds == Chain # << >> /\ mem[Chain[Len(Chain)]] = 0
\* The frame records printed so far.
FrameRecords == SelectSeq(out, LAMBDA r : r.t = "frame")

\* C10: on a chain of exactly N frames ending in a zero saved frame
\* pointer, backtrace emits exactly N frame records, in chain order from
\* the current frame pointer, each with the frame's pointer, word[1] as
\* return address and word[2..5] as arguments, and returns status 0.
C10_BacktraceFrames ==
    ChainEnds /\ calls # << >> /\ calls[1].func = "mon_backtrace" =>
        /\ Len(FrameRecords) <= Len(Chain)
        /\ \A k \in 1 .. Len(FrameRecords) :
              FrameRecords[k] =
                  [t |-> "frame", ebp |-> Chain[k], eip |-> mem[Chain[k] + 4],
                   args |-> <<mem[Chain[k] + 8], mem[Chain[k] + 12],
                              mem[Chain[k] + 16], mem[Chain[k] + 20]>>]
        /\ pc = "backtrace" =>
              /\ iter = Len(FrameRecords)
              /\ ebp = IF iter < Len(Chain) THEN Chain[iter + 1] ELSE 0
        /\ calls[1].done =>
              /\ Len(FrameRecords) = Len(Chain)
              /\ ret = 0
              /\ pc \in {"returned", "prompt"}

\* backtrace has returned after a chain of three frames.
C10_Witness ==
    /\ pc = "returned"
    /\ calls # << >> /\ calls[1].func = "mon_backtrace"
    /\ Len(Chain) = 3
    /\ Len(FrameRecords) = 3

\* The page lines printed so far.
PageLines == SelectSeq(out, LAMBDA r : r.t = "page")

\* C11: every page examined by pagemappings produces exactly one output
\* line, for that address: an unmapped line if and only if the accessor has
\* no translation for the address, otherwise a va -> pa line whose physical
\* address is the translation's frame address with the low 12 bits clear.
C11_OneLinePerPage ==
    /\ Len(PageLines) = Len(lookups)
    /\ lookups # << >> => out = PageLines
    /\ \A k \in 1 .. Len(PageLines) :
          /\ PageLines[k].va = lookups[k]
          /\ PageLines[k].mapped <=> lookups[k].pg \in DOMAIN pgtab
          /\ PageLines[k].mapped =>
                PageLines[k].pa = U32(pgtab[lookups[k].pg].pg, 0)

\* pagemappings has printed three lines, the first for a page with a
\* translation and the last for a page without one.
C11_Witness ==
    /\ LineDone
    /\ Len(PageLines) = 3
    /\ PageLines[1].mapped
    /\ PageLines[1].pa = U32(5, 0)
    /\ ~PageLines[3].mapped

\* C12: on the line of a page with a translation the no-physical-memory
\* suffix is printed if and only if the translation's frame number is
\* greater than or equal to the managed page count; an unmapped line never
\* carries it.
C12_NoMemorySuffix ==
    \A k \in 1 .. Len(PageLines) :
        IF PageLines[k].mapped
        THEN PageLines[k].nomem <=>
                 pgtab[PageLines[k].va.pg].pg >= npages
        ELSE "nomem" \notin DOMAIN PageLines[k]

\* The suffix was printed for the frame whose number equals the page count.
C12_Witness ==
    \E k \in 1 .. Len(PageLines) :
        /\ PageLines[k].mapped
        /\ PageLines[k].nomem
        /\ PageLines[k].pa.pg = npages

\* The nine flags in the order of the printed list; flag i is bit i-1 of
\* the translation's low bits.
Mnemonics == <<"P", "W", "U", "PWT", "PCD", "A", "D", "PS", "G">>
\* The mnemonics of the flags set in bits, in that order, joined by single
\* commas.
FlagList(bits) ==
    LET on == SelectSeq([i \in 1 .. 9 |-> i],
                        LAMBDA i : (bits \div 2 ^ (i - 1)) % 2 = 1)
    IN  [j \in 1 .. 2 * Len(on) - 1 |->
            IF j % 2 = 1 THEN Mnemonics[on[(j + 1) \div 2]] ELSE ","]

\* C13: for every subset of the nine protection flags set in a
\* translation, the bracketed list holds exactly the mnemonics of the set
\* flags, in the order P, W, U, PWT, PCD, A, D, PS, G, joined by single
\* commas with none leading or trailing; no flag set prints an empty list.
C13_FlagList ==
    \A k \in 1 .. Len(PageLines) :
        PageLines[k].mapped =>
            PageLines[k].flags = FlagList(pgtab[PageLines[k].va.pg].off)

\* One command has printed a list of all nine flags and an empty list.
C13_Witness ==
    /\ Len(PageLines) = 3
    /\ PageLines[1].flags = <<"P", ",", "W", ",", "U", ",", "PWT", ",", "PCD",
                              ",", "A", ",", "D", ",", "PS", ",", "G">>
    /\ PageLines[3].mapped
    /\ PageLines[3].flags = << >>

\* C14 as stated: the interpreter loop ends when the line source reports
\* end-of-input, as well as when a handler signals termination.
C14_EndOfInputEndsLoop ==
    [][pc = "prompt" /\ rl' = "null" => pc' = "exited"]_vars

\* C14, amended: the loop ends only when a handler has returned a negative
\* status; when the line source reports end-of-input the loop prompts
\* again.
C14_OnlyHandlerEndsLoop ==
    [][/\ pc = "prompt" /\ rl' = "null" => pc' = "prompt"
       /\ pc # "exited" /\ pc' = "exited" =>
             /\ pc = "returned"
             /\ calls # << >>
             /\ calls[Len(calls)].done
             /\ calls[Len(calls)].ret = ret
             /\ ret < 0
       /\ pc = "exited" => pc' = "exited"]_vars

\* The line source has reported end-of-input and the loop is at its prompt.
C14_Witness == rl = "null" /\ pc = "prompt"

\* The pages the for loop of pagemappings has still to examine, counted
\* from the masked addresses.
PagesLeft ==
    IF U32Leq(va_start, va_end) THEN va_end.pg - va_start.pg + 1 ELSE 0

\* C15: each pagemappings command runs to completion before the next line
\* is read: for every validated pair of start and end addresses, a range
\* ending in the last page of the address space included, every turn of
\* the page loop leaves fewer pages to examine, so that the loop ends after
\* finitely many lookups.
C15_PageLoopTerminates ==
    [][pc = "pagemappings" =>
          \/ pc' = "returned" /\ PagesLeft = 0
          \/ pc' = "pagemappings" /\ PagesLeft' < PagesLeft]_vars

\* The chain from the current frame pointer never reaches a zero saved
\* frame pointer: having more links than there are frames, it runs into a
\* cycle.
ChainNeverEnds == Chain # << >> /\ ~ChainEnds

\* C16: the backtrace loop stops if and only if the frame pointer has
\* become zero, whatever the number of frames walked and wherever they lie;
\* on a chain that never reaches zero backtrace stays in its loop with a
\* non-zero frame pointer, never returns, and the interpreter never prompts
\* again.
C16_BacktraceStopsOnZeroOnly ==
    [][pc = "backtrace" =>
          /\ pc' \in {"backtrace", "returned"}
          /\ pc' = "returned" <=> ebp = 0
          /\ pc' = "backtrace" => ebp' = mem[ebp] /\ iter' = iter + 1
          /\ ChainNeverEnds =>
                /\ ebp # 0
                /\ pc' = "backtrace"
                /\ calls' = <<Running("mon_backtrace")>>]_vars

\* On a cyclic chain backtrace has walked more frames than the stack holds
\* and is still in its loop.
C16_Witness ==
    /\ ChainNeverEnds
    /\ pc = "backtrace"
    /\ iter > Cardinality(Frames)
    /\ Len(FrameRecords) > Cardinality(Frames)
    /\ ebp # 0

\* C17: an empty or all-whitespace line performs no registry lookup,
\* invokes no handler, prints nothing and returns a continue status.
C17_BlankLineNoOp ==
    rl = "line" /\ NumRuns(line) = 0 =>
        /\ argc = 0
        /\ ~looked
        /\ calls = << >>
        /\ out = << >>
        /\ lookups = << >>
        /\ pc \in {"tokenize", "lookup", "returned", "prompt"}
        /\ LineDone => ret = 0 /\ ~Breaks(ret)

\* runcmd has returned for a line of blanks, tabs and a line feed.
C17_Witness ==
    /\ LineDone
    /\ pc = "returned"
    /\ Len(line) > 0
    /\ NumRuns(line) = 0

\* C18: whatever lines are read and whatever commands run, the inspected
\* machine state (address-translation structure, stack memory, frame
\* pointer, page count) is left as it was; the interpreter writes only its
\* argument vector and the line buffer, in its tokenizer, where a
\* whitespace character of the buffer becomes a terminator and nothing else
\* changes.
C18_MachineOnlyRead ==
    [][/\ machine' = machine
       /\ pc \notin {"prompt", "tokenize"} => buf' = buf /\ argv' = argv
       /\ pc = "tokenize" =>
             /\ Len(buf') = Len(buf)
             /\ \A i \in 1 .. Len(buf) :
                   \/ buf'[i] = buf[i]
                   \/ buf[i] \in WsChars /\ buf'[i] = NUL]_vars

\* pagemappings has examined three pages and returned, on a line whose
\* buffer the tokenizer has cut into arguments.
C18_Witness ==
    /\ LineDone
    /\ Len(lookups) = 3
    /\ buf # line \o <<NUL>>
    /\ argv[2] \in 1 .. Len(buf)
    /\ pgtab \in {PageTableA, PageTableB}

\* The argument vector as a handler must find it: slots 0..argc-1 point at
\* the tokens of the line, in order, and slot argc is null.
ArgvForHandler ==
    /\ argv[argc] = 0
    /\ \A i \in 0 .. argc - 1 :
          /\ argv[i] \in 1 .. Len(buf)
          /\ CStr(buf, argv[i]) = Run(line, i)

\* C19: in every state the argument count is between 0 and 15; every write
\* to the 16-slot argument vector is at one index, between 0 and 15; and
\* whenever a handler is invoked, slots 0..argc-1 hold the tokens and slot
\* argc holds the null terminator.
C19_ArgvInBounds ==
    [][/\ argc \in 0 .. MAXARGS - 1 /\ argc' \in 0 .. MAXARGS - 1
       /\ DOMAIN argv' = 0 .. MAXARGS - 1
       /\ pc = "tokenize" /\ argv' # argv =>
             /\ argc \in 0 .. MAXARGS - 1
             /\ \A i \in DOMAIN argv \ {argc} : argv'[i] = argv[i]
       /\ pc = "lookup" /\ argc # 0 => ArgvForHandler
       /\ calls' # << >> => ArgvForHandler' /\ calls'[1].argc = argc']_vars

\* A handler has been invoked with fifteen arguments, the last slot of the
\* vector holding the terminator.
C19_Witness ==
    /\ calls # << >>
    /\ calls[1].argc = MAXARGS - 1
    /\ argv[MAXARGS - 1] = 0
    /\ argv[MAXARGS - 2] \in 1 .. Len(buf)

\* The handlers that take no argument, by command name.
PlainCommands ==
    (S_help :> "mon_help") @@ (S_kerninfo :> "mon_kerninfo")
        @@ (S_backtrace :> "mon_backtrace")
\* What each of them prints when given no argument, by the kind of each
\* printout: one line per registered command, the seven kernel-symbol
\* lines, the header and two printouts per frame of the chain.
PlainOutput(f) ==
    IF f = "mon_help" THEN <<"help", "help", "help", "help", "help">>
    ELSE IF f = "mon_kerninfo"
    THEN <<"kerninfo", "kerninfo", "kerninfo", "kerninfo", "kerninfo",
           "kerninfo", "kerninfo">>
    ELSE <<"backtrace_header">>
             \o [i \in 1 .. 2 * Len(Chain) |->
                    IF i % 2 = 1 THEN "frame" ELSE "symbol"]

\* C20: help, kerninfo and backtrace never look at their arguments: on a
\* line whose first token is one of these names, with up to 14 further
\* tokens, the handler is invoked with all the tokens, prints what it
\* prints when given none, and returns 0; whatever the number of tokens the
\* line never ends the interpreter loop.
C20_PlainCommandsContinue ==
    rl = "line" /\ NumRuns(line) >= 1 /\ Run(line, 0) \in DOMAIN PlainCommands =>
        /\ pc # "exited"
        /\ LineDone => ret = 0
        /\ lookups = << >>
        /\ Tokenized /\ NumRuns(line) <= MAXARGS - 1 /\ pc # "lookup" =>
              /\ Len(calls) = 1
              /\ calls[1].func = PlainCommands[Run(line, 0)]
              /\ calls[1].argc = NumRuns(line)
              /\ calls[1].ret = 0
              /\ calls[1].done <=> LineDone
              /\ LineDone =>
                    [i \in 1 .. Len(out) |-> out[i].t] =
                        PlainOutput(calls[1].func)

\* help, kerninfo or backtrace has run with fourteen arguments after its
\* name and the loop is back at its prompt.
C20_Witness ==
    /\ LineDone
    /\ pc = "prompt"
    /\ calls # << >>
    /\ calls[1].func \in {"mon_help", "mon_kerninfo", "mon_backtrace"}
    /\ calls[1].argc = MAXARGS - 1
    /\ argc = MAXARGS - 1
    /\ out # << >>

=============================================================================
